---------------------------- MODULE Spec2Model ----------------------------
(***************************************************************************)
(* A model of generate_site.py: the field normaliser (clean_text), the     *)
(* slug generator (slugify), the record builder (read_restaurants), the    *)
(* page renderer (build_card, build_detail, build_page) and the site       *)
(* writer (generate_site, copy_styles, main).                              *)
(*                                                                         *)
(* A Python str is a sequence of Unicode code points (naturals).  A piece  *)
(* of rendered HTML is a sequence of elements, each remembering where it   *)
(* came from: a literal of the template ("tpl"), a character copied from   *)
(* a record field ("data"), or an entity written by html.escape ("esc").   *)
(***************************************************************************)
EXTENDS Integers, Sequences, FiniteSets, TLC

VARIABLES
    csv_exists,     \* CSV_PATH.exists()
    csv_rows,       \* the rows csv.DictReader yields, in file order
    docs,           \* the output tree: [dirs : set of paths, files : path -> content]
    pc,             \* where main() is
    index,          \* rows consumed by the loop of read_restaurants
    restaurants,    \* read_restaurants' list of records built so far
    used_slugs,     \* read_restaurants' reservation set
    err,            \* the exception that ended the run, if any
    detail_i,       \* records consumed by the detail loop of generate_site
    written,        \* the paths this run has written, in order
    runs,           \* runs of main() started so far
    call,           \* the pure function under test was applied ("none" before)
    arg,            \* its argument
    ret             \* its result

vars == <<csv_exists, csv_rows, docs, pc, index, restaurants, used_slugs, err,
          detail_i, written, runs, call, arg, ret>>

-----------------------------------------------------------------------------
(* Bounds of the model. *)

MaxLen == 3

MaxRows == 3

MaxSiteRows == 2

MaxRuns == 2

-----------------------------------------------------------------------------
(* Code points and their classes, as Python sees them. *)

MIDDLE_DOT == 183

PUA_THRESHOLD == 57344

\* str.isspace(), which is also what str.strip() strips and what \s matches
WhiteSpace ==
    (9..13) \cup (28..32) \cup {133, 160, 5760} \cup (8192..8202)
        \cup {8232, 8233, 8239, 8287, 12288}

\* the line boundaries of str.splitlines()
LineBreaks == {10, 11, 12, 13, 28, 29, 30, 133, 8232, 8233}

\* the characters of the strip argument of line 49: the space and the middle dot
SpaceOrDot == {32, MIDDLE_DOT}

\* the five characters html.escape(quote=True) rewrites: & < > " '
HtmlSpecial == {38, 60, 62, 34, 39}

\* the Unicode private-use code points: U+E000..U+F8FF and planes 15 and 16
PrivateUse == (57344..63743) \cup (983040..1048573) \cup (1048576..1114109)

\* re's \w on str: alphanumerics and the underscore.  Given for ASCII, Latin-1
\* letters and the CJK unified ideographs; every other code point the model
\* uses (punctuation, spaces, combining marks, private use, emoji) is not \w.
IsWord(c) ==
    \/ c \in 48..57
    \/ c \in 65..90
    \/ c \in 97..122
    \/ c = 95
    \/ c \in (192..255) \ {215, 247}
    \/ c \in 13312..19903
    \/ c \in 19968..40959

\* str.isupper() of one character, for ASCII and Latin-1
IsUpper(c) == c \in 65..90 \/ c \in (192..222) \ {215}

\* str.lower() of one character, for ASCII and Latin-1
LowerChar(c) == IF IsUpper(c) THEN c + 32 ELSE c

\* unicodedata.normalize("NFKD", c) of one character: the decompositions of the
\* code points the model uses; the others have none.
DecomposeChar(c) ==
    CASE c = 233   -> <<101, 769>>     \* e-acute: e + combining acute
      [] c = 201   -> <<69, 769>>      \* E-acute
      [] c = 65313 -> <<65>>           \* fullwidth A
      [] c = 12288 -> <<32>>           \* ideographic space
      [] c = 160   -> <<32>>           \* no-break space
      [] c = 63744 -> <<35912>>        \* CJK compatibility ideograph U+F900
      [] OTHER     -> <<c>>

-----------------------------------------------------------------------------
(* String helpers. *)

RECURSIVE LStrip(_, _)
LStrip(s, cs) ==
    IF s = <<>> \/ Head(s) \notin cs THEN s ELSE LStrip(Tail(s), cs)

RECURSIVE RStrip(_, _)
RStrip(s, cs) ==
    IF s = <<>> \/ s[Len(s)] \notin cs THEN s
    ELSE RStrip(SubSeq(s, 1, Len(s) - 1), cs)

\* str.strip(chars)
Strip(s, cs) == RStrip(LStrip(s, cs), cs)

RECURSIVE SplitFrom(_, _, _)
SplitFrom(s, i, cur) ==
    IF i > Len(s) THEN (IF cur = <<>> THEN <<>> ELSE <<cur>>)
    ELSE IF s[i] \in LineBreaks
         THEN LET step == IF s[i] = 13 /\ i < Len(s) /\ s[i + 1] = 10
                          THEN 2 ELSE 1
              IN  <<cur>> \o SplitFrom(s, i + step, <<>>)
         ELSE SplitFrom(s, i + 1, Append(cur, s[i]))

\* str.splitlines()
SplitLines(s) == SplitFrom(s, 1, <<>>)

RECURSIVE Concat(_)
Concat(ss) == IF ss = <<>> THEN <<>> ELSE Head(ss) \o Concat(Tail(ss))

RECURSIVE Join(_, _)
Join(sep, ss) ==
    IF ss = <<>> THEN <<>>
    ELSE IF Len(ss) = 1 THEN ss[1]
    ELSE ss[1] \o sep \o Join(sep, Tail(ss))

Map(f(_), s) == [i \in 1..Len(s) |-> f(s[i])]

Range(s) == {s[i] : i \in 1..Len(s)}

Strings(alphabet, n) == UNION {[1..k -> alphabet] : k \in 0..n}

-----------------------------------------------------------------------------
(* slugify and clean_text. *)

RESTAURANT == <<114, 101, 115, 116, 97, 117, 114, 97, 110, 116>>

normalize_NFKD(text) == Concat(Map(DecomposeChar, text))

lower(text) == Map(LowerChar, text)

\* re.sub(r"[\s_]+", "-", s): every maximal run becomes one hyphen
RECURSIVE sub_collapse(_, _)
sub_collapse(s, inRun) ==
    IF s = <<>> THEN <<>>
    ELSE IF Head(s) \in WhiteSpace \cup {95}
         THEN (IF inRun THEN <<>> ELSE <<45>>) \o sub_collapse(Tail(s), TRUE)
         ELSE <<Head(s)>> \o sub_collapse(Tail(s), FALSE)

\* re.sub(r"[^\w\-]", "", s)
sub_safe(s) == SelectSeq(s, LAMBDA c : IsWord(c) \/ c = 45)

slugify(text) ==
    LET normalized == lower(Strip(normalize_NFKD(text), WhiteSpace))
        collapsed  == sub_collapse(normalized, FALSE)
        safe       == sub_safe(collapsed)
    IN  IF safe # <<>> THEN safe ELSE RESTAURANT

clean_text(value) ==
    LET v == Strip(value, WhiteSpace)
        stripped == Map(LAMBDA line : Strip(line, SpaceOrDot), SplitLines(v))
        lines == SelectSeq(stripped, LAMBDA line : line # <<>>)
        text == lines[Len(lines)]
    IN  IF v = <<>> \/ v = <<MIDDLE_DOT>> THEN <<>>
        ELSE IF lines = <<>> THEN <<>>
        ELSE IF Len(text) = 1 /\ text[1] > PUA_THRESHOLD THEN <<>>
        ELSE text

-----------------------------------------------------------------------------
(* The record builder: the body of read_restaurants' loop. *)

\* row.get(key, ""), and (row.get(key) or ""): a missing column is empty
Get(row, key) == IF key \in DOMAIN row THEN row[key] ELSE <<>>

\* str(n) of a natural number
RECURSIVE Digits(_)
Digits(n) == IF n < 10 THEN <<48 + n>> ELSE Digits(n \div 10) \o <<48 + (n % 10)>>

\* f"<U+9910><U+5EF3> {index + 1}", the name of a row that has none
fallback_name(i) == <<39184, 24307, 32>> \o Digits(i + 1)

\* the while loop of lines 72-74, from the counter's current value
RECURSIVE suffixed_slug(_, _, _)
suffixed_slug(slug_base, counter, used) ==
    LET slug == slug_base \o <<45>> \o Digits(counter)
    IN  IF slug \in used THEN suffixed_slug(slug_base, counter + 1, used)
        ELSE slug

\* unique_slug without the loop: the base is taken as it is
unique_slug_unchecked(slug_base, used) == slug_base

\* unique_slug with the counter starting one too high
unique_slug_from_three(slug_base, used) ==
    IF slug_base \in used THEN suffixed_slug(slug_base, 3, used) ELSE slug_base

\* lines 70-74: slug = slug_base, then the loop while slug in used_slugs
unique_slug(slug_base, used) ==
    IF slug_base \in used THEN suffixed_slug(slug_base, 2, used) ELSE slug_base

row_name(row, i) ==
    LET cleaned == clean_text(Get(row, "qBF1Pd"))
    IN  IF cleaned # <<>> THEN cleaned ELSE fallback_name(i)

Restaurant(row, i, used) ==
    LET name == row_name(row, i)
        services == SelectSeq(
            <<clean_text(Get(row, "ah5Ghc")), clean_text(Get(row, "ah5Ghc (2)")),
              clean_text(Get(row, "ah5Ghc (3)"))>>,
            LAMBDA service : service # <<>>)
        cleaned_count == clean_text(Get(row, "UY7F9"))
        alt_url == Strip(Get(row, "A1zNzb href (2)"), WhiteSpace)
        alt_label == clean_text(Get(row, "J8zHNe (2)"))
    IN  [ slug            |-> unique_slug(slugify(name), used),
          name            |-> name,
          map_url         |-> Strip(Get(row, "hfpxzc href"), WhiteSpace),
          rating          |-> clean_text(Get(row, "MW4etd")),
          review_count    |-> Strip(cleaned_count, {40, 41}),
          category        |-> clean_text(Get(row, "W4Efsd")),
          address         |-> clean_text(Get(row, "W4Efsd (3)")),
          status          |-> clean_text(Get(row, "W4Efsd (4)")),
          hours           |-> clean_text(Get(row, "W4Efsd (5)")),
          image_url       |-> Strip(Get(row, "FQ2IWe src"), WhiteSpace),
          services        |-> services,
          action_label    |-> clean_text(Get(row, "J8zHNe")),
          action_url      |-> Strip(Get(row, "A1zNzb href"), WhiteSpace),
          price           |-> clean_text(Get(row, "AJB7ye (2)")),
          secondary_links |-> IF alt_url # <<>> /\ alt_label # <<>>
                              THEN <<<<alt_label, alt_url>>>> ELSE <<>> ]

-----------------------------------------------------------------------------
(* The page renderer.  The Chinese literals of the templates are written   *)
(* as bracketed English glosses.                                           *)

Tpl(t) == [o |-> "tpl", t |-> t, c |-> 0]

Esc(t) == [o |-> "esc", t |-> t, c |-> 0]

Data(c) == [o |-> "data", t |-> "", c |-> c]

\* html.escape with quote=False: the two quote characters pass through
escape_char_unquoted(c) ==
    CASE c = 38 -> Esc("&amp;")
      [] c = 60 -> Esc("&lt;")
      [] c = 62 -> Esc("&gt;")
      [] OTHER  -> Data(c)

\* html.escape of one character, quote=True
escape_char(c) ==
    CASE c = 38 -> Esc("&amp;")
      [] c = 60 -> Esc("&lt;")
      [] c = 62 -> Esc("&gt;")
      [] c = 34 -> Esc("&quot;")
      [] c = 39 -> Esc("&#x27;")
      [] OTHER  -> Data(c)

html_escape(text) == Map(escape_char, text)

\* an f-string field written without html_escape
interpolate(text) == Map(Data, text)

build_card(r) ==
    LET price == IF r.price # <<>>
                 THEN <<Tpl("<span class='price'>")>> \o html_escape(r.price)
                          \o <<Tpl("</span>")>>
                 ELSE <<>>
        rating == IF r.rating # <<>>
                  THEN <<Tpl("<div class='rating'>[star] ")>> \o html_escape(r.rating)
                           \o <<Tpl(" <span class='reviews'>(")>>
                           \o html_escape(r.review_count) \o <<Tpl(")</span></div>")>>
                  ELSE <<>>
        image == IF r.image_url # <<>>
                 THEN <<Tpl("<div class='card-image'><img src='")>>
                          \o html_escape(r.image_url) \o <<Tpl("' alt='")>>
                          \o html_escape(r.name) \o <<Tpl("'></div>")>>
                 ELSE <<Tpl("<div class='card-image placeholder'>[no image]</div>")>>
    IN  <<Tpl("<article class='card'>"), Tpl("<a class='card-link' href='restaurants/")>>
            \o interpolate(r.slug) \o <<Tpl("/'>")>>
            \o image
            \o <<Tpl("<div class='card-body'><h2>")>> \o html_escape(r.name)
            \o <<Tpl("</h2><p class='meta'>")>>
            \o rating
            \o <<Tpl("<span class='category'>")>> \o html_escape(r.category)
            \o <<Tpl("</span>")>>
            \o price
            \o <<Tpl("</p><p class='status'>")>> \o html_escape(r.status)
            \o <<Tpl(" ")>> \o html_escape(r.hours)
            \o <<Tpl("</p><p class='address'>")>> \o html_escape(r.address)
            \o <<Tpl("</p></div></a>"), Tpl("</article>")>>

\* html_escape(text or literal), for a literal that holds nothing to escape
escape_or(text, literal) ==
    IF text # <<>> THEN html_escape(text) ELSE <<Tpl(literal)>>

\* seq[:n]
Take(seq, n) == SubSeq(seq, 1, IF Len(seq) < n THEN Len(seq) ELSE n)

\* lines 188-205: the items that apply to the record, each a piece of HTML
applicable_highlights(r) ==
    LET rating_item ==
            <<Tpl("<li>"), Tpl("<strong>")>> \o html_escape(r.rating)
                \o <<Tpl(" [star]</strong> . ")>>
                \o escape_or(r.review_count, "[recent reviews]")
                \o <<Tpl(" [genuine reviews, worth amplifying]"), Tpl("</li>")>>
        category_item ==
            <<Tpl("<li>"), Tpl("[by the tag] ")>> \o html_escape(r.category)
                \o <<Tpl(" [target the matching audience]"), Tpl("</li>")>>
        joined_services ==
            Join(<<Tpl("[ideographic comma]")>>, Map(html_escape, Take(r.services, 3)))
        services_item ==
            <<Tpl("<li>"), Tpl("[with] ")>> \o joined_services
                \o <<Tpl(" [service scenarios, tailored sales script]"), Tpl("</li>")>>
        price_item ==
            <<Tpl("<li>"), Tpl("[with a ticket of] ")>> \o html_escape(r.price)
                \o <<Tpl(" [as the goal, remarketing cadence]"), Tpl("</li>")>>
    IN  (IF r.rating # <<>> THEN <<rating_item>> ELSE <<>>)
            \o (IF r.category # <<>> THEN <<category_item>> ELSE <<>>)
            \o (IF r.services # <<>> THEN <<services_item>> ELSE <<>>)
            \o (IF r.price # <<>> THEN <<price_item>> ELSE <<>>)

\* line 208
generic_highlight ==
    <<Tpl("<li>"), Tpl("[a specialist sets up the marketing flow]"), Tpl("</li>")>>

\* value_highlights without the fallback of lines 207-208
value_highlights_no_fallback(r) == applicable_highlights(r)

\* lines 188-208: the items of the promotional list
value_highlights(r) ==
    LET items == applicable_highlights(r)
    IN  IF items = <<>> THEN <<generic_highlight>> ELSE items

build_detail(r) ==
    LET services_html ==
            Concat(Map(LAMBDA service :
                           <<Tpl("<li><span class='bullet'>[bullet]</span> ")>>
                               \o html_escape(service) \o <<Tpl("</li>")>>,
                       r.services))
        services_block ==
            IF services_html # <<>>
            THEN <<Tpl("<ul class='services'>")>> \o services_html \o <<Tpl("</ul>")>>
            ELSE <<Tpl("<p class='muted'>[no service information]</p>")>>
        primary ==
            IF r.action_label # <<>> /\ r.action_url # <<>>
            THEN <<Tpl("<a class='button primary' href='")>> \o html_escape(r.action_url)
                     \o <<Tpl("' target='_blank' rel='noopener'>")>>
                     \o html_escape(r.action_label) \o <<Tpl("</a>")>>
            ELSE <<>>
        map_link ==
            IF r.map_url # <<>>
            THEN <<Tpl("<a class='button secondary' href='")>> \o html_escape(r.map_url)
                     \o <<Tpl("' target='_blank' rel='noopener'>[view map]</a>")>>
            ELSE <<>>
        secondary ==
            Concat(Map(LAMBDA link :
                           <<Tpl("<a class='button secondary' href='")>>
                               \o html_escape(link[2])
                               \o <<Tpl("' target='_blank' rel='noopener'>")>>
                               \o html_escape(link[1]) \o <<Tpl("</a>")>>,
                       r.secondary_links))
        actions == primary \o map_link \o secondary
        action_block ==
            IF actions # <<>> THEN actions
            ELSE <<Tpl("<p class='muted'>[no external links]</p>")>>
        hero ==
            IF r.image_url # <<>>
            THEN <<Tpl("<img class='hero' src='")>> \o html_escape(r.image_url)
                     \o <<Tpl("' alt='")>> \o html_escape(r.name) \o <<Tpl("'>")>>
            ELSE <<Tpl("<div class='hero placeholder'>[no image provided]</div>")>>
        price_block ==
            IF r.price # <<>>
            THEN <<Tpl("<span class='pill'>")>> \o html_escape(r.price)
                     \o <<Tpl("</span>")>>
            ELSE <<>>
        growth_section ==
            <<Tpl("<section class='promo'>"), Tpl("<h2>[for] ")>> \o html_escape(r.name)
                \o <<Tpl(" [growth plan]</h2>"), Tpl("<ul class='promo-list'>")>>
                \o Concat(value_highlights(r))
                \o <<Tpl("</ul>"),
                     Tpl("<a class='button primary' href='mailto:hello@example.com?subject=")>>
                \o html_escape(r.name)
                \o <<Tpl("%20[consultation]'>[book 30 minutes]</a>"),
                     Tpl("<a class='button secondary' href='")>>
                \o escape_or(r.map_url, "../../index.html")
                \o <<Tpl("' target='_blank' rel='noopener'>[store location]</a>"),
                     Tpl("<div class='stat-value'>")>>
                \o escape_or(r.category, "[popular restaurant]")
                \o <<Tpl("</div>"), Tpl("<div class='stat-value'>")>>
                \o escape_or(r.review_count, "[newly opened]")
                \o <<Tpl("</div>"), Tpl("<div class='stat-value'>")>>
                \o escape_or(Join(<<12289>>, r.services), "[flexible experience]")
                \o <<Tpl("</div>"), Tpl("</section>")>>
    IN  <<Tpl("<main class='detail'>"),
          Tpl("<a class='back-link' href='../../index.html'>[back to the list]</a>"),
          Tpl("<header><h1>")>> \o html_escape(r.name)
            \o <<Tpl("</h1><div class='tags'><span class='pill'>")>>
            \o html_escape(r.category) \o <<Tpl("</span>")>>
            \o price_block
            \o <<Tpl("</div><div class='summary'><div class='rating'>[star] ")>>
            \o html_escape(r.rating) \o <<Tpl(" <span class='reviews'>(")>>
            \o html_escape(r.review_count)
            \o <<Tpl(")</span></div><div class='status'>")>>
            \o html_escape(r.status) \o <<Tpl(" ")>> \o html_escape(r.hours)
            \o <<Tpl("</div><div class='address'>")>> \o html_escape(r.address)
            \o <<Tpl("</div></div></header>")>>
            \o hero
            \o growth_section
            \o <<Tpl("<section><h2>[services]</h2>")>> \o services_block
            \o <<Tpl("</section><section><h2>[links]</h2><div class='actions'>")>>
            \o action_block
            \o <<Tpl("</div></section>"), Tpl("</main>")>>

\* "../" * depth
RECURSIVE parent_prefix(_)
parent_prefix(depth) ==
    IF depth = 0 THEN <<>> ELSE <<Tpl("../")>> \o parent_prefix(depth - 1)

build_page(body, title, depth) ==
    <<Tpl("<!doctype html><html lang='zh-Hant'><head><title>")>>
        \o html_escape(title)
        \o <<Tpl("</title><link rel='stylesheet' href='")>>
        \o parent_prefix(depth)
        \o <<Tpl("assets/style.css'></head><body><div class='page'>")>>
        \o body
        \o <<Tpl("</div></body></html>")>>

\* the title of the index page, U+9910 U+5EF3 U+5217 U+8868
INDEX_TITLE == <<39184, 24307, 21015, 34920>>

\* lines 302-312 of generate_site: the index page over all the records
index_page(records) ==
    LET cards == Map(build_card, records)
        index_body ==
            <<Tpl("<header class='hero-header'><h1>[restaurant list]</h1><p>[total] ")>>
                \o interpolate(Digits(Len(cards)))
                \o <<Tpl(" [restaurants, each with its own page]</p></header>"),
                     Tpl("<section class='grid'>")>>
                \o Concat(cards)
                \o <<Tpl("</section>")>>
    IN  build_page(index_body, INDEX_TITLE, 0)

\* lines 316-317 of generate_site: the detail page of one record
detail_page(r) == build_page(build_detail(r), r.name, 2)

-----------------------------------------------------------------------------
(* Paths and the output tree.  A path is the sequence of its components,   *)
(* relative to ROOT, the directory of the program.                         *)

\* "restaurant_119HW.csv"
CSV_PATH ==
    <<<<114, 101, 115, 116, 97, 117, 114, 97, 110, 116, 95, 49, 49, 57, 72, 87,
        46, 99, 115, 118>>>>

\* "docs"
DOCS_DIR == <<<<100, 111, 99, 115>>>>

\* "docs/assets"
ASSETS_DIR == Append(DOCS_DIR, <<97, 115, 115, 101, 116, 115>>)

\* "docs/restaurants"
RESTAURANTS_DIR ==
    Append(DOCS_DIR, <<114, 101, 115, 116, 97, 117, 114, 97, 110, 116, 115>>)

\* "index.html"
INDEX_HTML == <<105, 110, 100, 101, 120, 46, 104, 116, 109, 108>>

\* "style.css"
STYLE_CSS == <<115, 116, 121, 108, 101, 46, 99, 115, 115>>

\* the components of a relative path string: split at "/", "" and "." dropped
RECURSIVE Parts(_, _)
Parts(s, cur) ==
    LET done == IF cur = <<>> \/ cur = <<46>> THEN <<>> ELSE <<cur>>
    IN  IF s = <<>> THEN done
        ELSE IF Head(s) = 47 THEN done \o Parts(Tail(s), <<>>)
        ELSE Parts(Tail(s), Append(cur, Head(s)))

\* pathlib's dir / name: an absolute name replaces dir
path_join(dir, name) ==
    IF name # <<>> /\ name[1] = 47 THEN Parts(name, <<>>)
    ELSE dir \o Parts(name, <<>>)

\* str(path)
path_str(path) == Join(<<47>>, path)

index_path == path_join(DOCS_DIR, INDEX_HTML)

style_path == path_join(ASSETS_DIR, STYLE_CSS)

\* detail_path with the slug left out of the path
detail_path_flat(slug) == path_join(RESTAURANTS_DIR, INDEX_HTML)

detail_path(slug) == path_join(path_join(RESTAURANTS_DIR, slug), INDEX_HTML)

EmptyTree == [dirs |-> {}, files |-> <<>>]

exists(tree, path) == path \in tree.dirs \/ path \in DOMAIN tree.files

\* Path.mkdir(parents=True, exist_ok=True)
mkdir(tree, path) ==
    [tree EXCEPT !.dirs = @ \cup {SubSeq(path, 1, k) : k \in 1..Len(path)}]

\* Path.write_text
write_text(tree, path, content) ==
    [tree EXCEPT !.files =
        [p \in DOMAIN @ \cup {path} |-> IF p = path THEN content ELSE @[p]]]

\* lines 292-294
write_file(tree, path, content) ==
    write_text(mkdir(tree, SubSeq(path, 1, Len(path) - 1)), path, content)

\* the stylesheet literal of lines 329-570
STYLESHEET == <<Tpl("[the stylesheet of copy_styles]")>>

\* what a hand edit leaves in assets/style.css
HAND_EDITED == <<Tpl("[a hand-edited stylesheet]")>>

NoError == [exc |-> "none", message |-> <<>>]

\* line 60
FileNotFound ==
    [exc |-> "FileNotFoundError",
     message |-> <<Tpl("Unable to find data file at ")>>
                     \o interpolate(path_str(CSV_PATH))]

-----------------------------------------------------------------------------
(* The inputs of the model. *)

\* "Cafe", "Cafe-2", "Cafe-3", "cafe", and a cell holding only a middle dot
ReadNames ==
    { <<67, 97, 102, 101>>, <<67, 97, 102, 101, 45, 50>>,
      <<67, 97, 102, 101, 45, 51>>, <<99, 97, 102, 101>>, <<MIDDLE_DOT>> }

\* rows that hold the name column alone
ReadRows == {[k \in {"qBF1Pd"} |-> name] : name \in ReadNames}

\* a cell value with the five characters html.escape rewrites: <'&">a
Special == <<60, 39, 38, 34, 62, 97>>

Cell == {<<>>, Special}

\* rows for the renderer: every rendered column empty or Special
RenderRows ==
    { [k \in {"qBF1Pd", "MW4etd", "UY7F9", "W4Efsd", "AJB7ye (2)", "ah5Ghc",
              "ah5Ghc (2)", "ah5Ghc (3)", "hfpxzc href", "J8zHNe", "A1zNzb href",
              "J8zHNe (2)", "A1zNzb href (2)", "FQ2IWe src", "W4Efsd (3)",
              "W4Efsd (4)", "W4Efsd (5)"} |->
         CASE k = "qBF1Pd" -> c[1]
           [] k = "MW4etd" -> c[2]
           [] k = "UY7F9" -> c[3]
           [] k = "W4Efsd" -> c[4]
           [] k = "AJB7ye (2)" -> c[5]
           [] k = "ah5Ghc" -> c[6]
           [] k \in {"ah5Ghc (2)", "ah5Ghc (3)"} -> c[7]
           [] k = "hfpxzc href" -> c[8]
           [] k \in {"J8zHNe", "A1zNzb href", "J8zHNe (2)", "A1zNzb href (2)"} -> c[9]
           [] OTHER -> c[10]]
      : c \in [1..10 -> Cell] }

\* a record built by hand, with more services than read_restaurants reads
FourServices ==
    [Restaurant([k \in {"qBF1Pd"} |-> <<65>>], 0, {})
        EXCEPT !.services = <<<<97>>, <<60>>, <<98>>, <<99>>>>]

BuiltRecords == {Restaurant(row, 0, {}) : row \in RenderRows}

\* the rows of the site runs: one full row named "A" and one row of empty cells
SiteRows ==
    { [k \in {"qBF1Pd", "MW4etd", "UY7F9", "W4Efsd", "ah5Ghc", "hfpxzc href"} |->
         CASE k = "qBF1Pd" -> <<65>>
           [] k = "MW4etd" -> <<52>>
           [] k = "UY7F9"  -> <<40, 57, 41>>
           [] k = "W4Efsd" -> <<60, 98, 62>>
           [] k = "ah5Ghc" -> <<38>>
           [] OTHER        -> <<109>>],
      [k \in {"qBF1Pd", "MW4etd"} |-> <<>>] }

\* the code points the text functions are tried on: tab, line feed, space,
\* middle dot, A, a, -, _, <, e-acute, a CJK ideograph, the first and another
\* private-use code point, fullwidth A
TextAlphabet ==
    {9, 10, 32, MIDDLE_DOT, 65, 97, 45, 95, 60, 233, 39184, 57344, 57600, 65313}

Resting == {"idle", "done", "failed"}

-----------------------------------------------------------------------------
(* main(): read_restaurants, then generate_site. *)

NoCall == call = "none" /\ arg = <<>> /\ ret = <<>>

\* main() is called on whatever CSV file the user has put in place
Invoke ==
    /\ pc \in Resting
    /\ runs < MaxRuns
    /\ csv_exists' \in BOOLEAN
    /\ csv_rows' \in
         IF csv_exists' THEN UNION {[1..n -> SiteRows] : n \in 0..MaxSiteRows}
         ELSE {<<>>}
    /\ pc' = "read"
    /\ runs' = runs + 1
    /\ index' = 0
    /\ restaurants' = <<>>
    /\ used_slugs' = {}
    /\ err' = NoError
    /\ detail_i' = 0
    /\ written' = <<>>
    /\ UNCHANGED <<docs, call, arg, ret>>

\* lines 59-60: the data file is missing
RaiseMissing ==
    /\ pc = "read"
    /\ ~csv_exists
    /\ pc' = "failed"
    /\ err' = FileNotFound
    /\ UNCHANGED <<csv_exists, csv_rows, docs, index, restaurants, used_slugs,
                   detail_i, written, runs, call, arg, ret>>

\* OpenCsv without the check of line 59
OpenCsvUnchecked ==
    /\ pc = "read"
    /\ pc' = "rows"
    /\ restaurants' = <<>>
    /\ used_slugs' = {}
    /\ index' = 0
    /\ UNCHANGED <<csv_exists, csv_rows, docs, err, detail_i, written, runs,
                   call, arg, ret>>

\* lines 59-65: the data file is there; the loop starts with nothing reserved
OpenCsv ==
    /\ pc = "read"
    /\ csv_exists
    /\ pc' = "rows"
    /\ restaurants' = <<>>
    /\ used_slugs' = {}
    /\ index' = 0
    /\ UNCHANGED <<csv_exists, csv_rows, docs, err, detail_i, written, runs,
                   call, arg, ret>>

\* lines 67-114: one turn of the loop
ReadRow ==
    /\ pc = "rows"
    /\ index < Len(csv_rows)
    /\ LET r == Restaurant(csv_rows[index + 1], index, used_slugs)
       IN  /\ used_slugs' = used_slugs \cup {r.slug}
           /\ restaurants' = Append(restaurants, r)
    /\ index' = index + 1
    /\ UNCHANGED <<csv_exists, csv_rows, docs, pc, err, detail_i, written, runs,
                   call, arg, ret>>

\* line 116, and main's call of generate_site
ReturnRestaurants ==
    /\ pc = "rows"
    /\ index = Len(csv_rows)
    /\ pc' = "mkdirs"
    /\ UNCHANGED <<csv_exists, csv_rows, docs, index, restaurants, used_slugs, err,
                   detail_i, written, runs, call, arg, ret>>

\* lines 298-300
MakeDirs ==
    /\ pc = "mkdirs"
    /\ docs' = mkdir(mkdir(mkdir(docs, ASSETS_DIR), DOCS_DIR), RESTAURANTS_DIR)
    /\ pc' = "index"
    /\ UNCHANGED <<csv_exists, csv_rows, index, restaurants, used_slugs, err,
                   detail_i, written, runs, call, arg, ret>>

\* lines 302-313
WriteIndex ==
    /\ pc = "index"
    /\ docs' = write_file(docs, index_path, index_page(restaurants))
    /\ written' = Append(written, index_path)
    /\ detail_i' = 0
    /\ pc' = "details"
    /\ UNCHANGED <<csv_exists, csv_rows, index, restaurants, used_slugs, err,
                   runs, call, arg, ret>>

\* lines 315-318: one turn of the loop
WriteDetail ==
    /\ pc = "details"
    /\ detail_i < Len(restaurants)
    /\ LET restaurant == restaurants[detail_i + 1]
           path == detail_path(restaurant.slug)
       IN  /\ docs' = write_file(docs, path, detail_page(restaurant))
           /\ written' = Append(written, path)
    /\ detail_i' = detail_i + 1
    /\ UNCHANGED <<csv_exists, csv_rows, pc, index, restaurants, used_slugs, err,
                   runs, call, arg, ret>>

\* CopyStyles without the check of lines 325-326
CopyStylesAlways ==
    /\ pc = "details"
    /\ detail_i = Len(restaurants)
    /\ docs' = write_text(docs, style_path, STYLESHEET)
    /\ written' = Append(written, style_path)
    /\ pc' = "done"
    /\ UNCHANGED <<csv_exists, csv_rows, index, restaurants, used_slugs, err,
                   detail_i, runs, call, arg, ret>>

\* lines 320-572, and main's return
CopyStyles ==
    /\ pc = "details"
    /\ detail_i = Len(restaurants)
    /\ IF exists(docs, style_path)
       THEN UNCHANGED <<docs, written>>
       ELSE /\ docs' = write_text(docs, style_path, STYLESHEET)
            /\ written' = Append(written, style_path)
    /\ pc' = "done"
    /\ UNCHANGED <<csv_exists, csv_rows, index, restaurants, used_slugs, err,
                   detail_i, runs, call, arg, ret>>

\* between runs the user edits (or first writes) assets/style.css by hand
HandEdit ==
    /\ pc \in Resting
    /\ ~(style_path \in DOMAIN docs.files /\ docs.files[style_path] = HAND_EDITED)
    /\ docs' = write_file(docs, style_path, HAND_EDITED)
    /\ UNCHANGED <<csv_exists, csv_rows, pc, index, restaurants, used_slugs, err,
                   detail_i, written, runs, call, arg, ret>>

\* before the first run: no data file looked at, no output tree
ProgramIdle ==
    /\ csv_exists = FALSE
    /\ csv_rows = <<>>
    /\ docs = EmptyTree
    /\ pc = "idle"
    /\ index = 0
    /\ restaurants = <<>>
    /\ used_slugs = {}
    /\ err = NoError
    /\ detail_i = 0
    /\ written = <<>>
    /\ runs = 0

Init == ProgramIdle /\ NoCall

Next ==
    \/ Invoke
    \/ RaiseMissing
    \/ OpenCsv
    \/ ReadRow
    \/ ReturnRestaurants
    \/ MakeDirs
    \/ WriteIndex
    \/ WriteDetail
    \/ CopyStyles
    \/ HandEdit

Spec == Init /\ [][Next]_vars

-----------------------------------------------------------------------------
(* read_restaurants alone, over rows with many colliding names. *)

InitRead ==
    /\ csv_exists = TRUE
    /\ csv_rows \in UNION {[1..n -> ReadRows] : n \in 0..MaxRows}
    /\ docs = EmptyTree
    /\ pc = "read"
    /\ index = 0
    /\ restaurants = <<>>
    /\ used_slugs = {}
    /\ err = NoError
    /\ detail_i = 0
    /\ written = <<>>
    /\ runs = 1
    /\ NoCall

NextRead ==
    \/ OpenCsv
    \/ ReadRow
    \/ ReturnRestaurants

SpecRead == InitRead /\ [][NextRead]_vars

-----------------------------------------------------------------------------
(* The text functions, each applied to every short string. *)

CallCleanText ==
    /\ call = "none"
    /\ call' = "clean_text"
    /\ ret' = clean_text(arg)
    /\ UNCHANGED <<csv_exists, csv_rows, docs, pc, index, restaurants, used_slugs,
                   err, detail_i, written, runs, arg>>

CallSlugify ==
    /\ call = "none"
    /\ call' = "slugify"
    /\ ret' = slugify(arg)
    /\ UNCHANGED <<csv_exists, csv_rows, docs, pc, index, restaurants, used_slugs,
                   err, detail_i, written, runs, arg>>

InitText ==
    /\ ProgramIdle
    /\ call = "none"
    /\ arg \in Strings(TextAlphabet, MaxLen)
    /\ ret = <<>>

NextText ==
    \/ CallCleanText
    \/ CallSlugify

SpecText == InitText /\ [][NextText]_vars

-----------------------------------------------------------------------------
(* The renderer, applied to records. *)

CallBuildCard ==
    /\ call = "none"
    /\ call' = "build_card"
    /\ ret' = build_card(arg)
    /\ UNCHANGED <<csv_exists, csv_rows, docs, pc, index, restaurants, used_slugs,
                   err, detail_i, written, runs, arg>>

CallBuildDetail ==
    /\ call = "none"
    /\ call' = "build_detail"
    /\ ret' = build_detail(arg)
    /\ UNCHANGED <<csv_exists, csv_rows, docs, pc, index, restaurants, used_slugs,
                   err, detail_i, written, runs, arg>>

InitRender ==
    /\ ProgramIdle
    /\ call = "none"
    /\ arg \in BuiltRecords \cup {FourServices}
    /\ ret = <<>>

NextRender ==
    \/ CallBuildCard
    \/ CallBuildDetail

SpecRender == InitRender /\ [][NextRender]_vars

-----------------------------------------------------------------------------
(* Properties of read_restaurants (checked under SpecRead). *)

Slugs == [i \in 1..Len(restaurants) |-> restaurants[i].slug]

Suffixed(slug_base, k) == slug_base \o <<45>> \o Digits(k)

\* C1: after any prefix of the rows the slugs of the records built so far are
\* pairwise distinct, and used_slugs is exactly the set of those slugs.
C1_SlugsDistinctAndReserved ==
    /\ \A i, j \in 1..Len(restaurants) : i # j => Slugs[i] # Slugs[j]
    /\ used_slugs = Range(Slugs)

\* the rows 'Cafe', 'Cafe', 'Cafe-2' have been read: the third base is taken
C1_Witness ==
    /\ pc = "rows"
    /\ Len(restaurants) = 3
    /\ restaurants[1].name = <<67, 97, 102, 101>>
    /\ restaurants[2].name = <<67, 97, 102, 101>>
    /\ restaurants[3].name = <<67, 97, 102, 101, 45, 50>>
    /\ Slugs = << <<99, 97, 102, 101>>, <<99, 97, 102, 101, 45, 50>>,
                  <<99, 97, 102, 101, 45, 50, 45, 50>> >>

\* C2: a record's slug is slugify(name) when no earlier row reserved it, and
\* otherwise slugify(name)-k for the least k >= 2 no earlier row reserved; rows
\* that all bear one name get base, base-2, base-3, ... in input order.
C2_FirstFreeSuffix ==
    /\ \A i \in 1..Len(restaurants) :
         LET slug_base == slugify(restaurants[i].name)
             earlier == {Slugs[j] : j \in 1..(i - 1)}
         IN  IF slug_base \notin earlier THEN Slugs[i] = slug_base
             ELSE \E k \in 2..(i + 1) :
                    /\ Slugs[i] = Suffixed(slug_base, k)
                    /\ Slugs[i] \notin earlier
                    /\ \A m \in 2..(k - 1) : Suffixed(slug_base, m) \in earlier
    /\ (\A i \in 1..Len(restaurants) : restaurants[i].name = restaurants[1].name)
         => \A i \in 1..Len(restaurants) :
              Slugs[i] = IF i = 1 THEN slugify(restaurants[1].name)
                         ELSE Suffixed(slugify(restaurants[1].name), i)

\* three rows named 'Cafe' have been read and got cafe, cafe-2, cafe-3
C2_Witness ==
    /\ Len(restaurants) = 3
    /\ \A i \in 1..3 : restaurants[i].name = <<67, 97, 102, 101>>
    /\ Slugs[3] = <<99, 97, 102, 101, 45, 51>>

-----------------------------------------------------------------------------
(* Properties of the text functions (checked under SpecText). *)

\* the ideographs of the CJK unified block
IsCJK(c) == c \in 19968..40959

\* C3: slugify(name) is non-empty, ASCII, without whitespace or uppercase
\* letters; a name of CJK characters only, and the empty name, give "restaurant".
C3_SlugIsAscii ==
    call = "slugify" =>
        /\ ret # <<>>
        /\ \A c \in Range(ret) : c < 128 /\ c \notin WhiteSpace /\ ~IsUpper(c)
        /\ (\A c \in Range(arg) : IsCJK(c)) => ret = RESTAURANT

\* the last line of the input that is non-empty once trimmed of whitespace and
\* middle dots, so trimmed; <<>> when there is none
TrimmedLastLine(value) ==
    LET trimmed == Map(LAMBDA line : Strip(line, WhiteSpace \cup {MIDDLE_DOT}),
                       SplitLines(value))
        kept == SelectSeq(trimmed, LAMBDA line : line # <<>>)
    IN  IF kept = <<>> THEN <<>> ELSE kept[Len(kept)]

\* C4: clean_text returns the empty string or the last line that is non-empty
\* after trimming, trimmed of surrounding whitespace and middle dots; so a
\* result never begins or ends with whitespace or a middle dot, and is empty
\* when every line holds only whitespace and middle dots.
C4_LastLineTrimmed ==
    call = "clean_text" =>
        /\ ret = <<>> \/ ret = TrimmedLastLine(arg)
        /\ ret # <<>> =>
             /\ ret[1] \notin WhiteSpace \cup {MIDDLE_DOT}
             /\ ret[Len(ret)] \notin WhiteSpace \cup {MIDDLE_DOT}
        /\ (\A c \in Range(arg) : c \in WhiteSpace \cup {MIDDLE_DOT}) => ret = <<>>

\* C5: when the cleaned text is one character, clean_text returns the empty
\* string if it is a private-use code point and the character otherwise.
C5_OnlyPrivateUseSuppressed ==
    (call = "clean_text" /\ Len(TrimmedLastLine(arg)) = 1) =>
        ret = IF TrimmedLastLine(arg)[1] \in PrivateUse THEN <<>>
              ELSE TrimmedLastLine(arg)

-----------------------------------------------------------------------------
(* Properties of the renderer (checked under SpecRender). *)

\* C6: in the card and the detail page of a record built by read_restaurants,
\* no character copied from a record field is one of < > & " ': each of those
\* in the output belongs to the template or to an entity of html.escape.
C6_NoRawSpecialFromFields ==
    (call \in {"build_card", "build_detail"} /\ arg \in BuiltRecords) =>
        \A i \in 1..Len(ret) : ret[i].o = "data" => ret[i].c \notin HtmlSpecial

\* a detail page was rendered for a record whose fields all hold < ' & " >
C6_Witness ==
    /\ call = "build_detail"
    /\ arg \in BuiltRecords
    /\ arg.name = Special
    /\ arg.price = Special
    /\ Len(arg.services) = 3
    /\ arg.secondary_links # <<>>
    /\ \E i \in 1..Len(ret) : ret[i] = Esc("&#x27;")

\* the promotional list of a detail page: what lies between its <ul> and </ul>
PromoList(page) ==
    LET open == CHOOSE i \in 1..Len(page) : page[i] = Tpl("<ul class='promo-list'>")
        close == CHOOSE j \in (open + 1)..Len(page) :
                    /\ page[j] = Tpl("</ul>")
                    /\ \A m \in (open + 1)..(j - 1) : page[m] # Tpl("</ul>")
    IN  SubSeq(page, open + 1, close - 1)

\* the literal that opens each kind of highlight
HighlightKind(e) ==
    CASE e = Tpl("<strong>") -> "rating"
      [] e = Tpl("[by the tag] ") -> "category"
      [] e = Tpl("[with] ") -> "services"
      [] e = Tpl("[with a ticket of] ") -> "price"
      [] e = Tpl("[a specialist sets up the marketing flow]") -> "generic"
      [] OTHER -> "none"

\* C10: the promotional list of a detail page holds between 1 and 4 items: one
\* for each of rating, category, services and price that is non-empty, in that
\* order, the services item naming at most the first three services; and the
\* generic item if and only if all four are empty.
C10_Highlights ==
    call = "build_detail" =>
        LET list == PromoList(ret)
            kinds == SelectSeq(Map(HighlightKind, list), LAMBDA k : k # "none")
            expected ==
                (IF arg.rating # <<>> THEN <<"rating">> ELSE <<>>)
                    \o (IF arg.category # <<>> THEN <<"category">> ELSE <<>>)
                    \o (IF arg.services # <<>> THEN <<"services">> ELSE <<>>)
                    \o (IF arg.price # <<>> THEN <<"price">> ELSE <<>>)
            items == Cardinality({i \in 1..Len(list) : list[i] = Tpl("<li>")})
            commas == Cardinality({i \in 1..Len(list) :
                                      list[i] = Tpl("[ideographic comma]")})
        IN  /\ items \in 1..4
            /\ items = Len(kinds)
            /\ kinds = IF expected = <<>> THEN <<"generic">> ELSE expected
            /\ arg.services # <<>> =>
                 commas = (IF Len(arg.services) < 3 THEN Len(arg.services) ELSE 3) - 1

\* a detail page was rendered for a record with all four present
C10_Witness ==
    /\ call = "build_detail"
    /\ arg.rating # <<>>
    /\ arg.category # <<>>
    /\ Len(arg.services) = 3
    /\ arg.price # <<>>
    /\ Cardinality({i \in 1..Len(ret) : ret[i] = Tpl("<li>")}) = 4

-----------------------------------------------------------------------------
(* Properties of main() (checked under Spec). *)

\* the characters of a message that were copied in, as a string
CopiedText(message) ==
    LET copied == SelectSeq(message, LAMBDA e : e.o = "data")
    IN  [i \in 1..Len(copied) |-> copied[i].c]

\* C7: when the data file does not exist, the run ends in a FileNotFoundError
\* whose message names the expected path, and the step that ends it leaves
\* the output tree as it was: nothing is created, nothing is written.
C7_MissingFileAborts ==
    [][(pc = "read" /\ ~csv_exists) =>
          /\ pc' = "failed"
          /\ err'.exc = "FileNotFoundError"
          /\ CopiedText(err'.message) = path_str(CSV_PATH)
          /\ docs' = docs
          /\ written' = <<>>]_vars

\* a run over a missing data file has failed, after an earlier run had
\* written a site
C7_Witness ==
    /\ pc = "failed"
    /\ ~csv_exists
    /\ runs = 2
    /\ err.exc = "FileNotFoundError"
    /\ index_path \in DOMAIN docs.files
    /\ written = <<>>

\* C8: once assets/style.css exists, no step of a run changes its content: the
\* stylesheet is written only by a run that finds it absent.
C8_StylesheetKept ==
    [][(style_path \in DOMAIN docs.files /\ (pc \notin Resting \/ pc' = "read")) =>
          /\ style_path \in DOMAIN docs'.files
          /\ docs'.files[style_path] = docs.files[style_path]]_vars

\* a second run has ended over a hand-edited stylesheet and rewrote the pages
C8_Witness ==
    /\ pc = "done"
    /\ runs = 2
    /\ written # <<>>
    /\ style_path \notin Range(written)
    /\ style_path \in DOMAIN docs.files
    /\ docs.files[style_path] = HAND_EDITED

CardOpen == Tpl("<article class='card'>")

LinkOpen == Tpl("<a class='card-link' href='restaurants/")

CountOpen == Tpl("<header class='hero-header'><h1>[restaurant list]</h1><p>[total] ")

\* the characters copied into the page right after its k-th element equal to
\* open, up to the next literal of the template
CopiedAfter(page, open, k) ==
    LET start == CHOOSE i \in 1..Len(page) :
                    /\ page[i] = open
                    /\ Cardinality({j \in 1..i : page[j] = open}) = k
        stop == CHOOSE j \in (start + 1)..Len(page) :
                    /\ page[j].o = "tpl"
                    /\ \A m \in (start + 1)..(j - 1) : page[m].o # "tpl"
    IN  [m \in 1..(stop - start - 1) |-> page[start + m].c]

\* C9: after a run, index.html holds one card per record and reports their
\* number, the i-th card links to restaurants/<slug of record i>/, every
\* record's detail page is in restaurants/<slug>/index.html, and the detail
\* paths are pairwise distinct, the run having written one file per record.
C9_OnePagePerRecord ==
    pc = "done" =>
        LET page == docs.files[index_path]
            n == Len(restaurants)
            count(e) == Cardinality({i \in 1..Len(page) : page[i] = e})
            details == Range(written) \ {index_path, style_path}
        IN  /\ count(CardOpen) = n
            /\ count(LinkOpen) = n
            /\ CopiedAfter(page, CountOpen, 1) = Digits(n)
            /\ \A i \in 1..n :
                 /\ CopiedAfter(page, LinkOpen, i) = restaurants[i].slug
                 /\ detail_path(restaurants[i].slug) \in DOMAIN docs.files
                 /\ docs.files[detail_path(restaurants[i].slug)]
                      = detail_page(restaurants[i])
                 /\ detail_path(restaurants[i].slug) =
                      RESTAURANTS_DIR \o <<restaurants[i].slug, INDEX_HTML>>
            /\ \A i, j \in 1..n :
                 i # j => detail_path(restaurants[i].slug)
                            # detail_path(restaurants[j].slug)
            /\ Cardinality(details) = n

\* a run over two rows named "A" has ended: cards and pages for a and a-2
C9_Witness ==
    /\ pc = "done"
    /\ Len(restaurants) = 2
    /\ restaurants[1].slug = <<97>>
    /\ restaurants[2].slug = <<97, 45, 50>>
    /\ Len(written) >= 3

=============================================================================
